---- MODULE Spec2Model ----
(***************************************************************************)
(* Model of the two binary-search-tree indexes of the repository:          *)
(*   StudentBST      (src/main.py)                       duplicate insert   *)
(*                                                       is skipped         *)
(*   DisciplinaryBST (src/solution_1_disciplinary_bst.py) duplicate insert  *)
(*                                                       overwrites         *)
(* A tree is a nested value: Nil, or a node [key, value, left, right].     *)
(* Nodes are owned by exactly one link, so the in-place mutation of a node *)
(* object is the replacement of the subtree value hanging on that link.    *)
(* Keys are Python strings compared with < and ==; the model uses the      *)
(* integers 1..NumKeys, which stand for NumKeys distinct identifiers in    *)
(* their lexicographic order.                                              *)
(* Every recursive method takes d, the number of Python frames still       *)
(* available to it (the interpreter's recursion limit minus the depth of   *)
(* the caller); a call that finds d = 0 raises RecursionError.  A          *)
(* recursive operator returns [raised, node]: node is the value returned   *)
(* (or, for the methods that mutate in place and when the call raised,     *)
(* the state in which the call left the node object it was given).         *)
(***************************************************************************)
EXTENDS Integers, Sequences, FiniteSets, TLC

\* ---- bounds ----
NumKeys == 4
MaxNodes == 4

Keys == 1..NumKeys

\* Frames that let every call of the model run to completion.
EnoughFrames == MaxNodes + 3

\* ---- Python values ----
None == "None"
NoneVal == [kind |-> "None"]
BoolVal(b) == [kind |-> "bool", val |-> b]
RecordVal(r) == [kind |-> "record", val |-> r]
ListVal(s) == [kind |-> "list", val |-> s]
RecursionError == [kind |-> "RecursionError"]

\* ---- src/main.py: Student ----
\* Each field has a usual value (the first) and another one.  The caller's
\* data departs from the usual values in one field per student, the field
\* being name, program or cgpa in turn along the keys.
Names == {"Ann", "Bob"}
Programs == {"CS", "IT"}
Cgpas == {"3.0", "3.5"}

Student(sid, name, program, cgpa) ==
  [student_id |-> sid, name |-> name, program |-> program, cgpa |-> cgpa]

StudentField(k) == <<"name", "program", "cgpa">>[(k % 3) + 1]

StudentValues(k, field, values, usual) ==
  IF StudentField(k) = field THEN values ELSE {usual}

\* the Student objects the caller constructs
Students ==
  UNION {{Student(k, n, p, c) :
            n \in StudentValues(k, "name", Names, "Ann"),
            p \in StudentValues(k, "program", Programs, "CS"),
            c \in StudentValues(k, "cgpa", Cgpas, "3.0")} : k \in Keys}

\* the keyword arguments the caller gives StudentBST.update for key k; None
\* means "not supplied"
StudentPatches(k) ==
  [new_name : StudentValues(k, "name", Names, "Ann") \cup {None},
   new_program : StudentValues(k, "program", Programs, "CS") \cup {None},
   new_cgpa : StudentValues(k, "cgpa", Cgpas, "3.0") \cup {None}]

\* ---- BSTNode ----
Nil == [nil |-> TRUE]

BSTNode(key, value) ==
  [key |-> key, value |-> value, left |-> Nil, right |-> Nil]

Ok(node) == [raised |-> FALSE, node |-> node]
Raise(node) == [raised |-> TRUE, node |-> node]

RECURSIVE StudentBST_insert_recursive(_, _, _)
RECURSIVE StudentBST_search_recursive(_, _, _)
RECURSIVE StudentBST_delete_recursive(_, _, _)
RECURSIVE StudentBST_min_value_node(_)
RECURSIVE StudentBST_inorder_recursive(_, _, _)
RECURSIVE StudentBST_store(_, _, _)

\* ---- StudentBST.insert ----
\* node.left = BSTNode(...) / node.right = BSTNode(...): the constructor
\* needs one frame of its own
\* variant: the new node is built but never linked
StudentBST_link_left_skips(node, student, d) ==
  IF d = 0 THEN Raise(node) ELSE Ok(node)

StudentBST_link_left(node, student, d) ==
  IF d = 0 THEN Raise(node)
  ELSE Ok([node EXCEPT !.left = BSTNode(student.student_id, student)])

\* variant: the right branch assigns node.left
StudentBST_link_right_links_left(node, student, d) ==
  IF d = 0 THEN Raise(node)
  ELSE Ok([node EXCEPT !.left = BSTNode(student.student_id, student)])

StudentBST_link_right(node, student, d) ==
  IF d = 0 THEN Raise(node)
  ELSE Ok([node EXCEPT !.right = BSTNode(student.student_id, student)])

\* variants of the duplicate branch: the duplicate treated as a smaller key,
\* and the stored Student replaced
StudentBST_insert_existing_links_left(node, student) ==
  IF node.left = Nil
    THEN Ok([node EXCEPT !.left = BSTNode(student.student_id, student)])
    ELSE Ok(node)

StudentBST_insert_existing_overwrites(node, student) ==
  Ok([node EXCEPT !.value = student])

\* the branch of _insert_recursive taken when the key is already in the tree
StudentBST_insert_existing(node, student) ==
  Ok(node)

StudentBST_insert_recursive(node, student, d) ==
  IF d = 0 THEN Raise(node)
  ELSE IF student.student_id = node.key
    THEN StudentBST_insert_existing(node, student)
  ELSE IF student.student_id < node.key
    THEN IF node.left = Nil
           THEN StudentBST_link_left(node, student, d - 1)
           ELSE LET r == StudentBST_insert_recursive(node.left, student, d - 1)
                IN  [raised |-> r.raised, node |-> [node EXCEPT !.left = r.node]]
  ELSE IF node.right = Nil
         THEN StudentBST_link_right(node, student, d - 1)
         ELSE LET r == StudentBST_insert_recursive(node.right, student, d - 1)
              IN  [raised |-> r.raised, node |-> [node EXCEPT !.right = r.node]]

\* returns [raised, root, ret]: the tree's root after the call and the
\* value the call returned
StudentBST_insert(rt, student, d) ==
  IF d = 0 THEN [raised |-> TRUE, root |-> rt, ret |-> RecursionError]
  ELSE IF rt = Nil
    THEN IF d - 1 = 0
           THEN [raised |-> TRUE, root |-> rt, ret |-> RecursionError]
           ELSE [raised |-> FALSE, root |-> BSTNode(student.student_id, student),
                 ret |-> NoneVal]
  ELSE LET r == StudentBST_insert_recursive(rt, student, d - 1)
       IN  [raised |-> r.raised, root |-> r.node,
            ret |-> IF r.raised THEN RecursionError ELSE NoneVal]

\* ---- StudentBST.search ----
StudentBST_search_recursive(node, key, d) ==
  IF d = 0 THEN Raise(Nil)
  ELSE IF node = Nil THEN Ok(Nil)
  ELSE IF key = node.key THEN Ok(node)
  ELSE IF key < node.key
    THEN StudentBST_search_recursive(node.left, key, d - 1)
    ELSE StudentBST_search_recursive(node.right, key, d - 1)

\* variant: the located node is assigned to self.root, as delete does
StudentBST_search_assigns_root(rt, student_id, d) ==
  IF d = 0 THEN [raised |-> TRUE, root |-> rt, ret |-> RecursionError]
  ELSE LET r == StudentBST_search_recursive(rt, student_id, d - 1)
       IN  [raised |-> r.raised, root |-> IF r.raised THEN rt ELSE r.node,
            ret |-> IF r.raised THEN RecursionError
                    ELSE IF r.node = Nil THEN NoneVal
                    ELSE RecordVal(r.node.value)]

StudentBST_search(rt, student_id, d) ==
  IF d = 0 THEN [raised |-> TRUE, root |-> rt, ret |-> RecursionError]
  ELSE LET r == StudentBST_search_recursive(rt, student_id, d - 1)
       IN  [raised |-> r.raised, root |-> rt,
            ret |-> IF r.raised THEN RecursionError
                    ELSE IF r.node = Nil THEN NoneVal
                    ELSE RecordVal(r.node.value)]

\* ---- StudentBST.update ----
\* variant: program assigned without the test for None
StudentBST_apply_program_unguarded(value, patch) ==
  [student_id |-> value.student_id,
   name |-> IF patch.new_name # None THEN patch.new_name ELSE value.name,
   program |-> patch.new_program,
   cgpa |-> IF patch.new_cgpa # None THEN patch.new_cgpa ELSE value.cgpa]

\* the three guarded assignments to node.value
StudentBST_apply(value, patch) ==
  [student_id |-> value.student_id,
   name |-> IF patch.new_name # None THEN patch.new_name ELSE value.name,
   program |-> IF patch.new_program # None THEN patch.new_program
               ELSE value.program,
   cgpa |-> IF patch.new_cgpa # None THEN patch.new_cgpa ELSE value.cgpa]

\* the tree after the Student object held by the node that
\* _search_recursive returned for key has been assigned to in place
StudentBST_store(node, key, patch) ==
  IF node = Nil THEN Nil
  ELSE IF key = node.key
    THEN [node EXCEPT !.value = StudentBST_apply(node.value, patch)]
  ELSE IF key < node.key
    THEN [node EXCEPT !.left = StudentBST_store(node.left, key, patch)]
    ELSE [node EXCEPT !.right = StudentBST_store(node.right, key, patch)]

StudentBST_update(rt, student_id, patch, d) ==
  IF d = 0 THEN [raised |-> TRUE, root |-> rt, ret |-> RecursionError]
  ELSE LET r == StudentBST_search_recursive(rt, student_id, d - 1)
       IN  IF r.raised
             THEN [raised |-> TRUE, root |-> rt, ret |-> RecursionError]
           ELSE IF r.node = Nil
             THEN [raised |-> FALSE, root |-> rt, ret |-> BoolVal(FALSE)]
           ELSE [raised |-> FALSE, root |-> StudentBST_store(rt, student_id, patch),
                 ret |-> BoolVal(TRUE)]

\* ---- StudentBST.delete ----
\* variant: the loop over current.left is missing
StudentBST_min_value_node_no_descent(node) ==
  node

StudentBST_min_value_node(node) ==
  IF node.left # Nil THEN StudentBST_min_value_node(node.left) ELSE node

\* variant: the successor is copied up but never deleted from node.right
StudentBST_delete_two_children_keeps_successor(node, d) ==
  IF d = 0 THEN Raise(node)
  ELSE LET successor == StudentBST_min_value_node(node.right)
       IN  Ok([node EXCEPT !.key = successor.key, !.value = successor.value])

\* Case 3 of _delete_recursive: the successor's key and value are copied
\* into node, then the successor is deleted from node.right
StudentBST_delete_two_children(node, d) ==
  IF d = 0 THEN Raise(node)      \* no frame for _min_value_node
  ELSE LET successor == StudentBST_min_value_node(node.right)
           copied == [node EXCEPT !.key = successor.key,
                                  !.value = successor.value]
           r == StudentBST_delete_recursive(node.right, successor.key, d)
       IN  [raised |-> r.raised, node |-> [copied EXCEPT !.right = r.node]]

\* variants of the found branch: the one-child tests return the empty side,
\* and the no-child case returns the node itself
StudentBST_delete_found_returns_empty(node, d) ==
  IF node.left = Nil /\ node.right = Nil THEN Ok(Nil)
  ELSE IF node.left = Nil THEN Ok(node.left)
  ELSE IF node.right = Nil THEN Ok(node.right)
  ELSE StudentBST_delete_two_children(node, d)

StudentBST_delete_found_keeps_leaf(node, d) ==
  IF node.left = Nil /\ node.right = Nil THEN Ok(node)
  ELSE IF node.left = Nil THEN Ok(node.right)
  ELSE IF node.right = Nil THEN Ok(node.left)
  ELSE StudentBST_delete_two_children(node, d)

\* the branch of _delete_recursive taken when key == node.key
StudentBST_delete_found(node, d) ==
  IF node.left = Nil /\ node.right = Nil THEN Ok(Nil)
  ELSE IF node.left = Nil THEN Ok(node.right)
  ELSE IF node.right = Nil THEN Ok(node.left)
  ELSE StudentBST_delete_two_children(node, d)

StudentBST_delete_recursive(node, key, d) ==
  IF d = 0 THEN Raise(node)
  ELSE IF node = Nil THEN Ok(Nil)
  ELSE IF key < node.key
    THEN LET r == StudentBST_delete_recursive(node.left, key, d - 1)
         IN  [raised |-> r.raised, node |-> [node EXCEPT !.left = r.node]]
  ELSE IF key > node.key
    THEN LET r == StudentBST_delete_recursive(node.right, key, d - 1)
         IN  [raised |-> r.raised, node |-> [node EXCEPT !.right = r.node]]
  ELSE StudentBST_delete_found(node, d - 1)

\* variant: delete returning whether the key was in the tree
StudentBST_delete_result_bool(rt, student_id) ==
  BoolVal(StudentBST_search_recursive(rt, student_id, EnoughFrames).node # Nil)

\* the value a completed delete call returns
StudentBST_delete_result(rt, student_id) ==
  NoneVal

StudentBST_delete(rt, student_id, d) ==
  IF d = 0 THEN [raised |-> TRUE, root |-> rt, ret |-> RecursionError]
  ELSE LET r == StudentBST_delete_recursive(rt, student_id, d - 1)
       IN  [raised |-> r.raised, root |-> r.node,
            ret |-> IF r.raised THEN RecursionError
                    ELSE StudentBST_delete_result(rt, student_id)]

\* ---- StudentBST.inorder ----
\* returns [raised, node]: node is the result list after the call
StudentBST_inorder_recursive(node, result, d) ==
  IF d = 0 THEN Raise(result)
  ELSE IF node = Nil THEN Ok(result)
  ELSE LET l == StudentBST_inorder_recursive(node.left, result, d - 1)
       IN  IF l.raised THEN l
           ELSE StudentBST_inorder_recursive(node.right,
                                             Append(l.node, node.value), d - 1)

StudentBST_inorder(rt, d) ==
  IF d = 0 THEN [raised |-> TRUE, root |-> rt, ret |-> RecursionError]
  ELSE LET r == StudentBST_inorder_recursive(rt, <<>>, d - 1)
       IN  [raised |-> r.raised, root |-> rt,
            ret |-> IF r.raised THEN RecursionError ELSE ListVal(r.node)]

\* ---- src/solution_1_disciplinary_bst.py: StudentRecord ----
\* As for Student: one field per record departs from its usual value, the
\* field being name, penalty_level or status in turn along the keys.
DisciplinaryNames == {"Alice Tan", "Ben Lee"}
Programmes == {"CS"}
OffenceTypes == {"Late submission"}
OffenceDates == {"2025-03-01"}
PenaltyLevels == {"Warning", "Probation"}
Statuses == {"Open", "Closed"}

RecordField(k) == <<"name", "penalty_level", "status">>[(k % 3) + 1]

RecordValues(k, field, values, usual) ==
  IF RecordField(k) = field THEN values ELSE {usual}

StudentRecord(sid, name, programme, offence, date, penalty, status) ==
  [student_id |-> sid, name |-> name, programme |-> programme,
   offence_type |-> offence, offence_date |-> date,
   penalty_level |-> penalty, status |-> status]

\* the StudentRecord objects the caller constructs
StudentRecords ==
  UNION {{StudentRecord(k, n, p, o, dt, pl, st) :
            n \in RecordValues(k, "name", DisciplinaryNames, "Alice Tan"),
            p \in Programmes, o \in OffenceTypes, dt \in OffenceDates,
            pl \in RecordValues(k, "penalty_level", PenaltyLevels, "Warning"),
            st \in RecordValues(k, "status", Statuses, "Open")} : k \in Keys}

\* BSTNode.__init__ of solution_1_disciplinary_bst.py
DisciplinaryBSTNode(record) ==
  [key |-> record.student_id, record |-> record, left |-> Nil, right |-> Nil]

RECURSIVE DisciplinaryBST_insert_node(_, _, _)
RECURSIVE DisciplinaryBST_search_node(_, _, _)
RECURSIVE DisciplinaryBST_delete_node(_, _, _)
RECURSIVE DisciplinaryBST_min_value_node(_)
RECURSIVE DisciplinaryBST_inorder(_, _, _)
RECURSIVE DisciplinaryBST_store(_, _, _, _)

\* ---- DisciplinaryBST.insert ----
\* variants of the duplicate branch: the record kept, and the node replaced
\* by a fresh one
DisciplinaryBST_insert_existing_keeps(node, record) ==
  Ok(node)

DisciplinaryBST_insert_existing_new_node(node, record) ==
  Ok(DisciplinaryBSTNode(record))

\* the branch of _insert taken when the key is already in the tree
DisciplinaryBST_insert_existing(node, record) ==
  Ok([node EXCEPT !.record = record])

\* _insert
DisciplinaryBST_insert_node(node, record, d) ==
  IF d = 0 THEN Raise(node)
  ELSE IF node = Nil
    THEN IF d - 1 = 0 THEN Raise(Nil) ELSE Ok(DisciplinaryBSTNode(record))
  ELSE IF record.student_id = node.key
    THEN DisciplinaryBST_insert_existing(node, record)
  ELSE IF record.student_id < node.key
    THEN LET r == DisciplinaryBST_insert_node(node.left, record, d - 1)
         IN  [raised |-> r.raised, node |-> [node EXCEPT !.left = r.node]]
  ELSE LET r == DisciplinaryBST_insert_node(node.right, record, d - 1)
       IN  [raised |-> r.raised, node |-> [node EXCEPT !.right = r.node]]

DisciplinaryBST_insert(rt, record, d) ==
  IF d = 0 THEN [raised |-> TRUE, root |-> rt, ret |-> RecursionError]
  ELSE LET r == DisciplinaryBST_insert_node(rt, record, d - 1)
       IN  [raised |-> r.raised, root |-> r.node,
            ret |-> IF r.raised THEN RecursionError ELSE NoneVal]

\* ---- DisciplinaryBST.search ----
\* _search
DisciplinaryBST_search_node(node, student_id, d) ==
  IF d = 0 THEN Raise(Nil)
  ELSE IF node = Nil THEN Ok(Nil)
  ELSE IF student_id = node.key THEN Ok(node)
  ELSE IF student_id < node.key
    THEN DisciplinaryBST_search_node(node.left, student_id, d - 1)
    ELSE DisciplinaryBST_search_node(node.right, student_id, d - 1)

DisciplinaryBST_search(rt, student_id, d) ==
  IF d = 0 THEN [raised |-> TRUE, root |-> rt, ret |-> RecursionError]
  ELSE LET r == DisciplinaryBST_search_node(rt, student_id, d - 1)
       IN  [raised |-> r.raised, root |-> rt,
            ret |-> IF r.raised THEN RecursionError
                    ELSE IF r.node = Nil THEN NoneVal
                    ELSE RecordVal(r.node.record)]

\* ---- DisciplinaryBST.update_penalty / update_status ----
\* node.record.penalty_level = new_penalty
DisciplinaryBST_set_penalty(record, new_penalty) ==
  [record EXCEPT !.penalty_level = new_penalty]

\* node.record.status = new_status
DisciplinaryBST_set_status(record, new_status) ==
  [record EXCEPT !.status = new_status]

\* the tree after the StudentRecord object held by the node that _search
\* returned for student_id has been assigned to in place
DisciplinaryBST_store(node, student_id, field, new) ==
  IF node = Nil THEN Nil
  ELSE IF student_id = node.key
    THEN [node EXCEPT !.record =
            IF field = "penalty_level"
              THEN DisciplinaryBST_set_penalty(node.record, new)
              ELSE DisciplinaryBST_set_status(node.record, new)]
  ELSE IF student_id < node.key
    THEN [node EXCEPT !.left =
            DisciplinaryBST_store(node.left, student_id, field, new)]
    ELSE [node EXCEPT !.right =
            DisciplinaryBST_store(node.right, student_id, field, new)]

DisciplinaryBST_update_field(rt, student_id, field, new, d) ==
  IF d = 0 THEN [raised |-> TRUE, root |-> rt, ret |-> RecursionError]
  ELSE LET r == DisciplinaryBST_search_node(rt, student_id, d - 1)
       IN  IF r.raised
             THEN [raised |-> TRUE, root |-> rt, ret |-> RecursionError]
           ELSE IF r.node # Nil
             THEN [raised |-> FALSE,
                   root |-> DisciplinaryBST_store(rt, student_id, field, new),
                   ret |-> BoolVal(TRUE)]
           ELSE [raised |-> FALSE, root |-> rt, ret |-> BoolVal(FALSE)]

DisciplinaryBST_update_penalty(rt, student_id, new_penalty, d) ==
  DisciplinaryBST_update_field(rt, student_id, "penalty_level", new_penalty, d)

DisciplinaryBST_update_status(rt, student_id, new_status, d) ==
  DisciplinaryBST_update_field(rt, student_id, "status", new_status, d)

\* ---- DisciplinaryBST.delete ----
\* variant: the loop over current.left is missing
DisciplinaryBST_min_value_node_no_descent(node) ==
  node

DisciplinaryBST_min_value_node(node) ==
  IF node.left # Nil THEN DisciplinaryBST_min_value_node(node.left) ELSE node

\* variant: the right child takes the node's place and the left subtree is lost
DisciplinaryBST_delete_two_children_returns_right(node, d) ==
  IF d = 0 THEN Raise(node) ELSE Ok(node.right)

\* variant: the successor's key is copied but not its record
DisciplinaryBST_delete_two_children_keeps_record(node, d) ==
  IF d = 0 THEN Raise(node)
  ELSE LET successor == DisciplinaryBST_min_value_node(node.right)
           copied == [node EXCEPT !.key = successor.key]
           r == DisciplinaryBST_delete_node(node.right, successor.key, d)
       IN  [raised |-> r.raised, node |-> [copied EXCEPT !.right = r.node]]

\* the two-children case of _delete
DisciplinaryBST_delete_two_children(node, d) ==
  IF d = 0 THEN Raise(node)      \* no frame for _min_value_node
  ELSE LET successor == DisciplinaryBST_min_value_node(node.right)
           copied == [node EXCEPT !.key = successor.key,
                                  !.record = successor.record]
           r == DisciplinaryBST_delete_node(node.right, successor.key, d)
       IN  [raised |-> r.raised, node |-> [copied EXCEPT !.right = r.node]]

\* variant: the second test returns node.right again
DisciplinaryBST_delete_found_drops_left(node, d) ==
  IF node.left = Nil THEN Ok(node.right)
  ELSE IF node.right = Nil THEN Ok(node.right)
  ELSE DisciplinaryBST_delete_two_children(node, d)

\* the branch of _delete taken when student_id == node.key
DisciplinaryBST_delete_found(node, d) ==
  IF node.left = Nil THEN Ok(node.right)
  ELSE IF node.right = Nil THEN Ok(node.left)
  ELSE DisciplinaryBST_delete_two_children(node, d)

\* variant: the right branch returns the recursive result instead of node
DisciplinaryBST_delete_node_returns_subtree(node, student_id, d) ==
  IF d = 0 THEN Raise(node)
  ELSE IF node = Nil THEN Ok(Nil)
  ELSE IF student_id < node.key
    THEN LET r == DisciplinaryBST_delete_node(node.left, student_id, d - 1)
         IN  [raised |-> r.raised, node |-> [node EXCEPT !.left = r.node]]
  ELSE IF student_id > node.key
    THEN DisciplinaryBST_delete_node(node.right, student_id, d - 1)
  ELSE DisciplinaryBST_delete_found(node, d - 1)

\* _delete
DisciplinaryBST_delete_node(node, student_id, d) ==
  IF d = 0 THEN Raise(node)
  ELSE IF node = Nil THEN Ok(Nil)
  ELSE IF student_id < node.key
    THEN LET r == DisciplinaryBST_delete_node(node.left, student_id, d - 1)
         IN  [raised |-> r.raised, node |-> [node EXCEPT !.left = r.node]]
  ELSE IF student_id > node.key
    THEN LET r == DisciplinaryBST_delete_node(node.right, student_id, d - 1)
         IN  [raised |-> r.raised, node |-> [node EXCEPT !.right = r.node]]
  ELSE DisciplinaryBST_delete_found(node, d - 1)

\* the value a completed delete call returns
DisciplinaryBST_delete_result(rt, student_id) ==
  NoneVal

DisciplinaryBST_delete(rt, student_id, d) ==
  IF d = 0 THEN [raised |-> TRUE, root |-> rt, ret |-> RecursionError]
  ELSE LET r == DisciplinaryBST_delete_node(rt, student_id, d - 1)
       IN  [raised |-> r.raised, root |-> r.node,
            ret |-> IF r.raised THEN RecursionError
                    ELSE DisciplinaryBST_delete_result(rt, student_id)]

\* ---- DisciplinaryBST.inorder_list ----
\* _inorder; returns [raised, node]: node is the result list after the call
DisciplinaryBST_inorder(node, result, d) ==
  IF d = 0 THEN Raise(result)
  ELSE IF node = Nil THEN Ok(result)
  ELSE LET l == DisciplinaryBST_inorder(node.left, result, d - 1)
       IN  IF l.raised THEN l
           ELSE DisciplinaryBST_inorder(node.right,
                                        Append(l.node, node.record), d - 1)

DisciplinaryBST_inorder_list(rt, d) ==
  IF d = 0 THEN [raised |-> TRUE, root |-> rt, ret |-> RecursionError]
  ELSE LET r == DisciplinaryBST_inorder(rt, <<>>, d - 1)
       IN  [raised |-> r.raised, root |-> rt,
            ret |-> IF r.raised THEN RecursionError ELSE ListVal(r.node)]

\* ---- the index under test and its caller ----
VARIABLES
  impl,   \* which class the tree is an instance of
  root,   \* self.root
  pre,    \* self.root when the caller made its call
  call,   \* the call the caller has made since the menu: method, key, argument
  ret,    \* what that call returned, or the exception it raised
  live,   \* keys of the completed inserts not followed by a completed delete
  twin    \* the DisciplinaryBST run side by side with a StudentBST: its
          \* root now and at the caller's call

vars == <<impl, root, pre, call, ret, live, twin>>

NoArg == [none |-> TRUE]

RECURSIVE Size(_)
Size(node) ==
  IF node = Nil THEN 0 ELSE 1 + Size(node.left) + Size(node.right)

RECURSIVE NodeKeys(_)
NodeKeys(node) ==
  IF node = Nil THEN {}
  ELSE {node.key} \cup NodeKeys(node.left) \cup NodeKeys(node.right)

\* the caller goes on only while no call has raised: neither main() catches
\* an exception of the tree
Running == ret.kind # "RecursionError"

\* the caller is at the top of its loop, about to choose an operation
AtMenu == call.op = "menu" /\ Running

\* a new key is accepted while the model's tree has room
Room(key) == Size(root) < MaxNodes \/ key \in NodeKeys(root)

Init ==
  /\ impl \in {"StudentBST", "DisciplinaryBST"}
  /\ root = Nil
  /\ pre = Nil
  /\ call = [op |-> "menu", key |-> 0, arg |-> NoArg]
  /\ ret = NoneVal
  /\ live = {}
  /\ twin = Nil

\* the effect of one call whose outcome is r = [raised, root, ret]
Called(op, key, arg, r) ==
  /\ pre' = root
  /\ root' = r.root
  /\ ret' = r.ret
  /\ call' = [op |-> op, key |-> key, arg |-> arg]
  /\ live' = IF r.raised THEN live
             ELSE IF op = "insert" THEN live \cup {key}
             ELSE IF op = "delete" THEN live \ {key}
             ELSE live
  /\ UNCHANGED <<impl, twin>>

StudentInsert(d) ==
  /\ impl = "StudentBST" /\ AtMenu
  /\ \E student \in Students :
       /\ Room(student.student_id)
       /\ Called("insert", student.student_id, student,
                 StudentBST_insert(root, student, d))

StudentSearch(d) ==
  /\ impl = "StudentBST" /\ AtMenu
  /\ \E k \in Keys :
       Called("search", k, NoArg, StudentBST_search(root, k, d))

StudentUpdate(d) ==
  /\ impl = "StudentBST" /\ AtMenu
  /\ \E k \in Keys :
     \E patch \in StudentPatches(k) :
       Called("update", k, patch, StudentBST_update(root, k, patch, d))

StudentDelete(d) ==
  /\ impl = "StudentBST" /\ AtMenu
  /\ \E k \in Keys :
       Called("delete", k, NoArg, StudentBST_delete(root, k, d))

StudentInorder(d) ==
  /\ impl = "StudentBST" /\ AtMenu
  /\ Called("inorder", 0, NoArg, StudentBST_inorder(root, d))

DisciplinaryInsert(d) ==
  /\ impl = "DisciplinaryBST" /\ AtMenu
  /\ \E record \in StudentRecords :
       /\ Room(record.student_id)
       /\ Called("insert", record.student_id, record,
                 DisciplinaryBST_insert(root, record, d))

DisciplinarySearch(d) ==
  /\ impl = "DisciplinaryBST" /\ AtMenu
  /\ \E k \in Keys :
       Called("search", k, NoArg, DisciplinaryBST_search(root, k, d))

DisciplinaryUpdatePenalty(d) ==
  /\ impl = "DisciplinaryBST" /\ AtMenu
  /\ \E k \in Keys :
     \E new_penalty \in RecordValues(k, "penalty_level", PenaltyLevels, "Warning") :
       Called("update_penalty", k, new_penalty,
              DisciplinaryBST_update_penalty(root, k, new_penalty, d))

DisciplinaryUpdateStatus(d) ==
  /\ impl = "DisciplinaryBST" /\ AtMenu
  /\ \E k \in Keys :
     \E new_status \in RecordValues(k, "status", Statuses, "Open") :
       Called("update_status", k, new_status,
              DisciplinaryBST_update_status(root, k, new_status, d))

DisciplinaryDelete(d) ==
  /\ impl = "DisciplinaryBST" /\ AtMenu
  /\ \E k \in Keys :
       Called("delete", k, NoArg, DisciplinaryBST_delete(root, k, d))

DisciplinaryInorderList(d) ==
  /\ impl = "DisciplinaryBST" /\ AtMenu
  /\ Called("inorder", 0, NoArg, DisciplinaryBST_inorder_list(root, d))

\* the caller has used the result and is back at the top of its loop
StudentMenu ==
  /\ impl = "StudentBST" /\ Running /\ call.op # "menu"
  /\ call' = [op |-> "menu", key |-> 0, arg |-> NoArg]
  /\ ret' = NoneVal
  /\ pre' = root
  /\ UNCHANGED <<impl, root, live, twin>>

DisciplinaryMenu ==
  /\ impl = "DisciplinaryBST" /\ Running /\ call.op # "menu"
  /\ call' = [op |-> "menu", key |-> 0, arg |-> NoArg]
  /\ ret' = NoneVal
  /\ pre' = root
  /\ UNCHANGED <<impl, root, live, twin>>

Operation(d) ==
  \/ StudentInsert(d)
  \/ StudentSearch(d)
  \/ StudentUpdate(d)
  \/ StudentDelete(d)
  \/ StudentInorder(d)
  \/ DisciplinaryInsert(d)
  \/ DisciplinarySearch(d)
  \/ DisciplinaryUpdatePenalty(d)
  \/ DisciplinaryUpdateStatus(d)
  \/ DisciplinaryDelete(d)
  \/ DisciplinaryInorderList(d)

\* every call is made with frames to spare
Next == Operation(EnoughFrames) \/ StudentMenu \/ DisciplinaryMenu

Spec == Init /\ [][Next]_vars

\* the caller's own depth varies: a call may find any number of frames left
NextLimited ==
  \/ \E d \in 1..EnoughFrames : Operation(d)
  \/ StudentMenu
  \/ DisciplinaryMenu

SpecLimited == Init /\ [][NextLimited]_vars

\* ---- one StudentBST and one DisciplinaryBST given the same calls ----
\* root is the StudentBST's root, twin.root the DisciplinaryBST's
InitPair ==
  /\ impl = "pair"
  /\ root = Nil
  /\ pre = Nil
  /\ call = [op |-> "menu", key |-> 0, arg |-> NoArg]
  /\ ret = NoneVal
  /\ live = {}
  /\ twin = [root |-> Nil, pre |-> Nil]

\* both trees are given the effect of the same call: s and t are the
\* outcomes [raised, root, ret] of the two classes
CalledBoth(op, key, arg, s, t) ==
  /\ pre' = root
  /\ root' = s.root
  /\ twin' = [root |-> t.root, pre |-> twin.root]
  /\ ret' = IF s.raised THEN s.ret ELSE t.ret
  /\ call' = [op |-> op, key |-> key, arg |-> arg]
  /\ live' = IF s.raised \/ t.raised THEN live
             ELSE IF op = "insert" THEN live \cup {key}
             ELSE live \ {key}
  /\ UNCHANGED impl

PairInsert ==
  /\ impl = "pair" /\ AtMenu
  /\ \E student \in Students :
     \E record \in StudentRecords :
       /\ record.student_id = student.student_id
       /\ Room(student.student_id)
       /\ CalledBoth("insert", student.student_id,
                     [student |-> student, record |-> record],
                     StudentBST_insert(root, student, EnoughFrames),
                     DisciplinaryBST_insert(twin.root, record, EnoughFrames))

PairDelete ==
  /\ impl = "pair" /\ AtMenu
  /\ \E k \in Keys :
       CalledBoth("delete", k, NoArg,
                  StudentBST_delete(root, k, EnoughFrames),
                  DisciplinaryBST_delete(twin.root, k, EnoughFrames))

PairMenu ==
  /\ impl = "pair" /\ Running /\ call.op # "menu"
  /\ call' = [op |-> "menu", key |-> 0, arg |-> NoArg]
  /\ ret' = NoneVal
  /\ pre' = root
  /\ twin' = [twin EXCEPT !.pre = twin.root]
  /\ UNCHANGED <<impl, root, live>>

NextPair == PairInsert \/ PairDelete \/ PairMenu

SpecPair == InitPair /\ [][NextPair]_vars

\* ---- what a caller observes of a tree ----
\* search(key) on the tree rt, called with frames to spare
Search(rt, key) ==
  IF impl = "StudentBST"
    THEN StudentBST_search(rt, key, EnoughFrames).ret
    ELSE DisciplinaryBST_search(rt, key, EnoughFrames).ret

\* inorder() / inorder_list() on the tree rt
Enumerate(rt) ==
  IF impl = "StudentBST"
    THEN StudentBST_inorder(rt, EnoughFrames).ret.val
    ELSE DisciplinaryBST_inorder_list(rt, EnoughFrames).ret.val

\* delete(key) on the tree rt
Delete(rt, key) ==
  IF impl = "StudentBST"
    THEN StudentBST_delete(rt, key, EnoughFrames)
    ELSE DisciplinaryBST_delete(rt, key, EnoughFrames)

RECURSIVE Shape(_)
Shape(node) ==
  IF node = Nil THEN Nil
  ELSE [key |-> node.key, left |-> Shape(node.left), right |-> Shape(node.right)]

RECURSIVE IsBST(_)
IsBST(node) ==
  \/ node = Nil
  \/ /\ \A k \in NodeKeys(node.left) : k < node.key
     /\ \A k \in NodeKeys(node.right) : k > node.key
     /\ IsBST(node.left)
     /\ IsBST(node.right)

RECURSIVE InorderKeys(_)
InorderKeys(node) ==
  IF node = Nil THEN <<>>
  ELSE InorderKeys(node.left) \o <<node.key>> \o InorderKeys(node.right)

Ids(records) == [i \in 1..Len(records) |-> records[i].student_id]

Ascending(seq) == \A i \in 1..(Len(seq) - 1) : seq[i] < seq[i + 1]

Without(records, key) ==
  LET Keep(r) == r.student_id # key IN SelectSeq(records, Keep)

\* the node of rt that search reaches for key
Located(rt, key) ==
  IF impl = "StudentBST"
    THEN StudentBST_search_recursive(rt, key, EnoughFrames).node
    ELSE DisciplinaryBST_search_node(rt, key, EnoughFrames).node

Completed(op) == call.op = op /\ Running
Present == call.key \in NodeKeys(pre)

\* no call raises while frames are to spare
NoRaise == Running

\* C1: in both classes, after any sequence of insert, update and delete
\* calls every node's left subtree holds only smaller keys and its right
\* subtree only greater keys, and the in-order traversal yields strictly
\* ascending keys (so no key occurs twice).
C1_BSTInvariant ==
  /\ IsBST(root)
  /\ Ascending(InorderKeys(root))
  /\ Ascending(Ids(Enumerate(root)))

\* a two-children delete whose successor is not the right child has acted
C1_Witness ==
  /\ Completed("delete") /\ Present
  /\ Located(pre, call.key).left # Nil
  /\ Located(pre, call.key).right # Nil
  /\ Located(pre, call.key).right.left # Nil

\* C2: after insert(R) with key K, search(K) returns R when K was absent
\* before; under the overwrite policy (DisciplinaryBST) it returns R also
\* when K was present.
C2_RoundTrip ==
  (Completed("insert") /\ (impl = "DisciplinaryBST" \/ ~Present))
    => Search(root, call.key) = RecordVal(call.arg)

\* DisciplinaryBST: a present key was inserted again with a different record
C2_Witness ==
  /\ Completed("insert") /\ impl = "DisciplinaryBST" /\ Present
  /\ Search(pre, call.key) # RecordVal(call.arg)
  /\ Size(pre) >= 3

\* C3: delete(K) on a tree containing K removes exactly K: search(K) is not
\* found afterwards, every other key maps to the record it mapped to, and
\* the enumeration is the previous one without K's record (length N-1).
C3_DeleteRemovesExactlyK ==
  (Completed("delete") /\ Present) =>
    /\ Search(root, call.key) = NoneVal
    /\ \A k \in Keys \ {call.key} : Search(root, k) = Search(pre, k)
    /\ Enumerate(root) = Without(Enumerate(pre), call.key)
    /\ Len(Enumerate(root)) = Len(Enumerate(pre)) - 1

\* the root, with two children, was deleted
C3_Witness ==
  /\ Completed("delete") /\ Present
  /\ pre.key = call.key
  /\ pre.left # Nil /\ pre.right # Nil
  /\ Size(pre) = MaxNodes

\* C4: the number of enumerated records equals the number of distinct keys
\* inserted and not subsequently deleted; N distinct inserts into the empty
\* tree enumerate as N records.
C4_Cardinality ==
  /\ Len(Enumerate(root)) = Cardinality(live)
  /\ {Enumerate(root)[i].student_id : i \in 1..Len(Enumerate(root))} = live
  /\ Completed("inorder") => Len(ret.val) = Cardinality(live)

\* the full tree was enumerated
C4_Witness ==
  /\ Completed("inorder")
  /\ Len(ret.val) = MaxNodes
  /\ Cardinality(live) = MaxNodes

\* C5: StudentBST.insert of a record whose key is in the tree leaves the
\* tree unchanged: same shape, same keys, and the original record under the
\* key.
C5_RejectPolicy ==
  (Completed("insert") /\ impl = "StudentBST" /\ Present) =>
    /\ root = pre
    /\ Search(root, call.key) = Search(pre, call.key)

\* a different record was offered for a key of the tree
C5_Witness ==
  /\ Completed("insert") /\ impl = "StudentBST" /\ Present
  /\ Search(pre, call.key) # RecordVal(call.arg)
  /\ Size(pre) >= 2

\* C6: DisciplinaryBST.insert of a record whose key is in the tree stores
\* the new record at that key's node and keeps the shape: no node created
\* or removed, every node keeps its key and children, every other key keeps
\* its record.
C6_OverwritePolicy ==
  (Completed("insert") /\ impl = "DisciplinaryBST" /\ Present) =>
    /\ Shape(root) = Shape(pre)
    /\ Size(root) = Size(pre)
    /\ Located(root, call.key).record = call.arg
    /\ \A k \in Keys \ {call.key} : Search(root, k) = Search(pre, k)

\* an inner node's record was replaced by a different one
C6_Witness ==
  /\ Completed("insert") /\ impl = "DisciplinaryBST" /\ Present
  /\ Located(pre, call.key).record # call.arg
  /\ Located(pre, call.key).left # Nil
  /\ Located(pre, call.key).right # Nil

\* the record stored at a node
Stored(node) == IF impl = "StudentBST" THEN node.value ELSE node.record

\* the record the update call should leave under its key
Patched(old) ==
  IF call.op = "update"
    THEN [student_id |-> old.student_id,
          name |-> IF call.arg.new_name # None THEN call.arg.new_name
                   ELSE old.name,
          program |-> IF call.arg.new_program # None THEN call.arg.new_program
                      ELSE old.program,
          cgpa |-> IF call.arg.new_cgpa # None THEN call.arg.new_cgpa
                   ELSE old.cgpa]
  ELSE IF call.op = "update_penalty"
    THEN [student_id |-> old.student_id, name |-> old.name,
          programme |-> old.programme, offence_type |-> old.offence_type,
          offence_date |-> old.offence_date, penalty_level |-> call.arg,
          status |-> old.status]
  ELSE [student_id |-> old.student_id, name |-> old.name,
        programme |-> old.programme, offence_type |-> old.offence_type,
        offence_date |-> old.offence_date, penalty_level |-> old.penalty_level,
        status |-> call.arg]

IsUpdate == call.op \in {"update", "update_penalty", "update_status"} /\ Running

\* C7: update / update_penalty / update_status return False and change
\* nothing when the key is absent; when it is present they return True,
\* change only the supplied fields of that key's record, keep its key and
\* its other fields, keep every other record and keep the tree shape.
C7_UpdateIsolation ==
  IsUpdate =>
    IF ~Present
      THEN ret = BoolVal(FALSE) /\ root = pre
      ELSE /\ ret = BoolVal(TRUE)
           /\ Shape(root) = Shape(pre)
           /\ Located(root, call.key).key = call.key
           /\ Stored(Located(root, call.key))
                = Patched(Stored(Located(pre, call.key)))
           /\ \A k \in Keys \ {call.key} : Search(root, k) = Search(pre, k)

\* one field of an inner record was changed
C7_Witness ==
  /\ IsUpdate /\ Present
  /\ Size(pre) >= 3
  /\ pre.key # call.key
  /\ root # pre
  /\ \/ call.op # "update"
     \/ call.arg.new_name # None /\ call.arg.new_program = None

\* C8 as stated: delete of an absent key reports not-found and leaves the
\* tree (enumeration, shape, root) unchanged, so a second delete(K) changes
\* nothing.
C8_IdempotentDeleteReported ==
  /\ (Completed("delete") /\ ~Present) =>
       /\ ret = BoolVal(FALSE)
       /\ root = pre
       /\ Enumerate(root) = Enumerate(pre)
  /\ Completed("delete") => Delete(root, call.key).root = root

\* C8: delete of an absent key returns None, the value delete returns for a
\* present key as well, and leaves the tree (enumeration, shape, root)
\* unchanged, so a second delete(K) changes nothing.
C8_IdempotentDelete ==
  /\ (Completed("delete") /\ ~Present) =>
       /\ ret = NoneVal
       /\ root = pre
       /\ Shape(root) = Shape(pre)
       /\ Enumerate(root) = Enumerate(pre)
  /\ Completed("delete") =>
       /\ Delete(root, call.key).root = root
       /\ Delete(root, call.key).ret = ret

\* a key that is not in a tree of several nodes was deleted
C8_Witness ==
  /\ Completed("delete") /\ ~Present
  /\ Size(pre) >= 3
  /\ \E k \in NodeKeys(pre) : k < call.key
  /\ \E k \in NodeKeys(pre) : k > call.key

\* C9: every operation is atomic: a call that fails part-way leaves the
\* tree exactly as it was before the call.
C9_Atomic ==
  (call.op # "menu" /\ ~Running) => root = pre

\* C10 as stated: delete returns whether a node was removed, true when the
\* key was present and false when it was absent.
C10_DeleteReportsRemoval ==
  Completed("delete") => ret = BoolVal(Present)

\* C10: delete returns None whether or not the key was present; a node is
\* removed exactly when the key was present before the call.
C10_DeleteReturnsNone ==
  Completed("delete") =>
    /\ ret = NoneVal
    /\ Size(root) = Size(pre) - (IF Present THEN 1 ELSE 0)
    /\ NodeKeys(root) = NodeKeys(pre) \ {call.key}

\* a key of the tree was deleted
C10_Witness ==
  /\ Completed("delete") /\ Present
  /\ ret = NoneVal
  /\ Size(root) >= 1

\* the outcome the index is specified to hand back from insert
OutcomeVal(o) == [kind |-> "outcome", val |-> o]

\* C11 as stated: insert returns Inserted for an absent key, and
\* DuplicateIgnored (StudentBST) or Updated (DisciplinaryBST) for a present
\* key, so the two cases can be told apart from the returned value.
C11_InsertOutcome ==
  Completed("insert") =>
    ret = OutcomeVal(IF ~Present THEN "Inserted"
                     ELSE IF impl = "StudentBST" THEN "DuplicateIgnored"
                     ELSE "Updated")

\* C11: insert returns None whether the key was absent or present; what
\* happened shows only in the tree: one node more when the key was absent,
\* the same nodes when it was present.
C11_InsertReturnsNone ==
  Completed("insert") =>
    /\ ret = NoneVal
    /\ Size(root) = Size(pre) + (IF Present THEN 0 ELSE 1)
    /\ NodeKeys(root) = NodeKeys(pre) \cup {call.key}

\* a key of the tree was inserted again and None came back
C11_Witness ==
  /\ Completed("insert") /\ ret = NoneVal
  /\ Present
  /\ Size(pre) >= 2

\* C12: search (found or not) and inorder / inorder_list leave the tree's
\* shape, keys and records unchanged, and an enumeration repeated at once
\* returns an equal sequence.
C12_ReadOnly ==
  /\ Completed("search") =>
       /\ root = pre
       /\ ret = Search(pre, call.key)
  /\ Completed("inorder") =>
       /\ root = pre
       /\ ret.val = Enumerate(root)
       /\ ret.val = Enumerate(pre)

\* an inner node was found by search
C12_Witness ==
  /\ Completed("search") /\ Present
  /\ pre.key # call.key
  /\ Size(pre) >= 3
  /\ ret.kind = "record"

\* ---- positions in a tree ----
\* the links followed from t toward key: up to key's node, or to the empty
\* link where key would hang
RECURSIVE PathTo(_, _)
PathTo(t, key) ==
  IF t = Nil \/ t.key = key THEN <<>>
  ELSE IF key < t.key THEN <<"L">> \o PathTo(t.left, key)
  ELSE <<"R">> \o PathTo(t.right, key)

RECURSIVE NodeAt(_, _)
NodeAt(t, path) ==
  IF path = <<>> THEN t
  ELSE IF t = Nil THEN Nil
  ELSE IF Head(path) = "L" THEN NodeAt(t.left, Tail(path))
  ELSE NodeAt(t.right, Tail(path))

\* t with the link at path pointing to sub, everything else as it is
RECURSIVE ReplaceAt(_, _, _)
ReplaceAt(t, path, sub) ==
  IF path = <<>> THEN sub
  ELSE IF Head(path) = "L"
    THEN [t EXCEPT !.left = ReplaceAt(t.left, Tail(path), sub)]
    ELSE [t EXCEPT !.right = ReplaceAt(t.right, Tail(path), sub)]

\* t without its leftmost node, whose right child takes its place
RECURSIVE RemoveLeftmost(_)
RemoveLeftmost(t) ==
  IF t.left = Nil THEN t.right
  ELSE [t EXCEPT !.left = RemoveLeftmost(t.left)]

RECURSIVE Leftmost(_)
Leftmost(t) == IF t.left = Nil THEN t ELSE Leftmost(t.left)

RECURSIVE Height(_)
Height(t) ==
  IF t = Nil THEN 0
  ELSE 1 + (IF Height(t.left) >= Height(t.right) THEN Height(t.left)
            ELSE Height(t.right))

Children(n) ==
  (IF n.left = Nil THEN 0 ELSE 1) + (IF n.right = Nil THEN 0 ELSE 1)

\* the smallest key of the tree greater than key
Successor(t, key) ==
  CHOOSE k \in NodeKeys(t) :
    k > key /\ \A j \in NodeKeys(t) : j > key => k <= j

\* the scenario M, B, T, A, C, S, Z: the seven identifiers in their order,
\* A = 1, B = 2, C = 3, M = 4, S = 5, T = 6, Z = 7
ScenarioOrder == <<4, 2, 6, 1, 3, 5, 7>>

RECURSIVE ScenarioTree(_)
ScenarioTree(n) ==
  IF n = 0 THEN Nil
  ELSE IF impl = "DisciplinaryBST"
    THEN DisciplinaryBST_insert(ScenarioTree(n - 1),
           StudentRecord(ScenarioOrder[n], "Alice Tan", "CS", "Late submission",
                         "2025-03-01", "Warning", "Open"), 7).root
    ELSE StudentBST_insert(ScenarioTree(n - 1),
           Student(ScenarioOrder[n], "Ann", "CS", "3.0"), 7).root

ScenarioAfterDelete ==
  IF impl = "DisciplinaryBST"
    THEN DisciplinaryBST_delete(ScenarioTree(7), 4, 7).root
    ELSE StudentBST_delete(ScenarioTree(7), 4, 7).root

\* C13: after delete(K) of a node with two children, K's position holds the
\* key and record of K's in-order successor (the smallest greater key, the
\* leftmost node of the right subtree), its left subtree is unchanged and
\* its right subtree is the former one without the successor's node.
\* Inserting M,B,T,A,C,S,Z and deleting M leaves S at the root and the
\* enumeration A,B,C,S,T,Z.
C13_SuccessorPromotion ==
  /\ (Completed("delete") /\ Present /\ Children(Located(pre, call.key)) = 2) =>
       LET path == PathTo(pre, call.key)
           old == NodeAt(pre, path)
           new == NodeAt(root, path)
           succ == Successor(pre, call.key)
       IN  /\ Leftmost(old.right).key = succ
           /\ new.key = succ
           /\ Stored(new) = Stored(Located(pre, succ))
           /\ new.left = old.left
           /\ new.right = RemoveLeftmost(old.right)
           /\ root = ReplaceAt(pre, path, new)
  /\ ScenarioAfterDelete.key = 5
  /\ InorderKeys(ScenarioAfterDelete) = <<1, 2, 3, 5, 6, 7>>
  /\ Ids(Enumerate(ScenarioAfterDelete)) = <<1, 2, 3, 5, 6, 7>>

\* the successor, deeper than the right child, was promoted with a record
\* that departs from the usual one
C13_Witness ==
  /\ Completed("delete") /\ Present
  /\ Children(Located(pre, call.key)) = 2
  /\ Located(pre, call.key).right.left # Nil
  /\ root.key = Successor(pre, call.key)
  /\ Stored(root) \notin
       {Student(root.key, "Ann", "CS", "3.0"),
        StudentRecord(root.key, "Alice Tan", "CS", "Late submission",
                      "2025-03-01", "Warning", "Open")}

\* how often _delete_recursive / _delete runs its two-children case while
\* deleting key from node
RECURSIVE TwoChildrenCases(_, _)
TwoChildrenCases(node, key) ==
  IF node = Nil THEN 0
  ELSE IF key < node.key THEN TwoChildrenCases(node.left, key)
  ELSE IF key > node.key THEN TwoChildrenCases(node.right, key)
  ELSE IF node.left = Nil \/ node.right = Nil THEN 0
  ELSE 1 + TwoChildrenCases(node.right,
             IF impl = "StudentBST"
               THEN StudentBST_min_value_node(node.right).key
               ELSE DisciplinaryBST_min_value_node(node.right).key)

\* the node the two-children case hands to the nested delete
MinValueNode(node) ==
  IF impl = "StudentBST" THEN StudentBST_min_value_node(node)
  ELSE DisciplinaryBST_min_value_node(node)

\* C14: the nested delete of a two-children delete removes a node without
\* left child, so the two-children case runs at most once per delete, and
\* the delete returns within Height + 2 frames.
C14_NestedDeleteBounded ==
  Completed("delete") =>
    /\ TwoChildrenCases(pre, call.key) <= 1
    /\ (Present /\ Children(Located(pre, call.key)) = 2) =>
         /\ MinValueNode(Located(pre, call.key).right).left = Nil
         /\ TwoChildrenCases(Located(pre, call.key).right,
                             MinValueNode(Located(pre, call.key).right).key) = 0
    /\ ~Delete(pre, call.key).raised
    /\ IF impl = "StudentBST"
         THEN ~StudentBST_delete(pre, call.key, Height(pre) + 2).raised
         ELSE ~DisciplinaryBST_delete(pre, call.key, Height(pre) + 2).raised

\* a two-children delete whose successor had a right child of its own
C14_Witness ==
  /\ Completed("delete") /\ Present
  /\ Children(Located(pre, call.key)) = 2
  /\ MinValueNode(Located(pre, call.key).right).right # Nil

\* C15: deleting a node with at most one child replaces the one link that
\* pointed to it (a parent's link or the root link) with its sole child, or
\* with empty; every other node keeps key, record and links.  Deleting the
\* only node leaves root empty.
C15_SpliceOut ==
  (Completed("delete") /\ Present /\ Children(Located(pre, call.key)) <= 1) =>
    LET path == PathTo(pre, call.key)
        old == NodeAt(pre, path)
    IN  /\ root = ReplaceAt(pre, path,
                            IF old.left = Nil THEN old.right ELSE old.left)
        /\ Size(pre) = 1 => root = Nil

\* an inner node with one child was spliced out
C15_Witness ==
  /\ Completed("delete") /\ Present
  /\ Children(Located(pre, call.key)) = 1
  /\ pre.key # call.key
  /\ Size(pre) >= 3

\* C16: inserting an absent key creates exactly one node, a leaf at the
\* empty link reached by descending from the root (left when smaller, right
\* when greater); the old tree is the new one without that leaf.  Into the
\* empty tree the new node becomes the root.
C16_LeafInsert ==
  (Completed("insert") /\ ~Present) =>
    LET path == PathTo(pre, call.key)
        leaf == NodeAt(root, path)
    IN  /\ NodeAt(pre, path) = Nil
        /\ leaf # Nil
        /\ leaf.key = call.key
        /\ Stored(leaf) = call.arg
        /\ leaf.left = Nil /\ leaf.right = Nil
        /\ ReplaceAt(root, path, Nil) = pre
        /\ Size(root) = Size(pre) + 1
        /\ pre = Nil => root = leaf

\* a leaf was hung two links below the root
C16_Witness ==
  /\ Completed("insert") /\ ~Present
  /\ Len(PathTo(pre, call.key)) >= 2
  /\ Size(root) = Size(pre) + 1

RECURSIVE KeysMatchRecords(_)
KeysMatchRecords(node) ==
  \/ node = Nil
  \/ /\ node.key = Stored(node).student_id
     /\ KeysMatchRecords(node.left)
     /\ KeysMatchRecords(node.right)

\* C17: every node's key equals the student_id of the record it stores, also
\* after an overwriting insert and after a two-children delete, so search(K)
\* never returns a record of another student_id.
C17_KeyRecordConsistency ==
  /\ KeysMatchRecords(root)
  /\ \A k \in Keys :
       Search(root, k) # NoneVal => Search(root, k).val.student_id = k

\* a two-children delete under DisciplinaryBST has copied a successor up
C17_Witness ==
  /\ Completed("delete") /\ Present /\ impl = "DisciplinaryBST"
  /\ Children(Located(pre, call.key)) = 2
  /\ Size(root) = MaxNodes - 1

\* C19: inserting an absent key and deleting it at once restores the tree:
\* same shape, same key and record at every position, same root.
C19_InsertDeleteInverse ==
  (Completed("insert") /\ ~Present) =>
    /\ Delete(root, call.key).root = pre
    /\ ~Delete(root, call.key).raised

\* an absent key was inserted below an inner node
C19_Witness ==
  /\ Completed("insert") /\ ~Present
  /\ Size(pre) >= 3
  /\ Len(PathTo(pre, call.key)) >= 1
  /\ Delete(root, call.key).root = pre

\* the record the DisciplinaryBST holds under key k, None when it has none
TwinRecord(rt, k) == DisciplinaryBST_search(rt, k, EnoughFrames).ret

\* C18: a StudentBST and a DisciplinaryBST given the same insert and delete
\* calls from empty have the same shape and the same key at every position
\* after every step, whether the deleted node had no, one or two children.
\* An insert of a key already present leaves both shapes as they were, the
\* StudentBST wholly as it was, and in the DisciplinaryBST only the record
\* under that key is replaced by the new one.
C18_VariantEquivalence ==
  impl = "pair" =>
    /\ Shape(root) = Shape(twin.root)
    /\ NodeKeys(root) = live
    /\ (call.op = "insert" /\ ~Present) =>
         LET path == PathTo(pre, call.key)
         IN  /\ NodeAt(root, path).value = call.arg.student
             /\ NodeAt(twin.root, path).record = call.arg.record
             /\ ReplaceAt(root, path, Nil) = pre
             /\ ReplaceAt(twin.root, path, Nil) = twin.pre
    /\ (call.op = "insert" /\ Present) =>
         /\ root = pre
         /\ Shape(twin.root) = Shape(twin.pre)
         /\ \A k \in NodeKeys(pre) :
              TwinRecord(twin.root, k) =
                IF k = call.key THEN RecordVal(call.arg.record)
                ELSE TwinRecord(twin.pre, k)
    /\ call.op = "delete" =>
         /\ Shape(root) = Shape(StudentBST_delete(pre, call.key, EnoughFrames).root)
         /\ \A k \in NodeKeys(root) :
              /\ StudentBST_search(root, k, EnoughFrames).ret =
                   StudentBST_search(pre, k, EnoughFrames).ret
              /\ TwinRecord(twin.root, k) = TwinRecord(twin.pre, k)

\* a key of a full tree was inserted again with other data: the StudentBST
\* kept its record, the DisciplinaryBST stored the new one
C18_Witness ==
  /\ impl = "pair" /\ call.op = "insert" /\ Present
  /\ Size(pre) = MaxNodes
  /\ pre.key # call.key
  /\ root = pre
  /\ StudentBST_search(root, call.key, EnoughFrames).ret # RecordVal(call.arg.student)
  /\ TwinRecord(twin.pre, call.key) # RecordVal(call.arg.record)
  /\ TwinRecord(twin.root, call.key) = RecordVal(call.arg.record)
  /\ Shape(root) = Shape(twin.root)

====
